---- MODULE Spec2Model ----
(***************************************************************************)
(* Project Roster (src/code.py): a Streamlit script that keeps a roster of *)
(* shift-pattern assignments in st.session_state.schedule and, on every    *)
(* run, recomputes the per-day coverage, the total slack and the           *)
(* "all requirements met" flag.                                            *)
(*                                                                         *)
(* One step of the model is one user interaction: the script run it        *)
(* triggers, including the run that st.rerun() starts, up to the rendered  *)
(* page.                                                                   *)
(***************************************************************************)
EXTENDS Integers, Sequences, FiniteSets, TLC

VARIABLES
    schedule,     \* st.session_state.schedule
    success,      \* n of st.success("Added Employee #n") on the page, 0 if none
    info,         \* st.info("No employees to remove.") is on the page
    fire_button,  \* the "Fire Last Employee" button is on the page
    dashboard,    \* what lines 99-194 computed in the last run
    event,        \* the interaction that started the last run (history)
    pre_hire      \* the roster as it was before the last hire (history)

vars == <<schedule, success, info, fire_button, dashboard, event, pre_hire>>

----------------------------------------------------------------------------
(* Bounds of the model *)

\* the roster never grows beyond this many employees
MaxEmployees == 10
\* up to this length the roster is any mix of patterns; beyond it only
\* LongRosterShift is hired
MixedLen == 3
\* longest pre-populated list given to calculate_coverage in SpecCalc
ProbeLen == 2

----------------------------------------------------------------------------
(* Configuration & data, lines 6-28 *)

REQUIREMENTS ==
    ("Monday" :> 6) @@ ("Tuesday" :> 4) @@ ("Wednesday" :> 8) @@
    ("Thursday" :> 9) @@ ("Friday" :> 10) @@ ("Saturday" :> 3) @@
    ("Sunday" :> 2)

\* list(REQUIREMENTS.keys()): a dict keeps insertion order
DAYS ==
    <<"Monday", "Tuesday", "Wednesday", "Thursday", "Friday", "Saturday",
      "Sunday">>

SHIFT_PATTERNS ==
    ("Sat-Sun Off (Work Mon-Fri)" :> <<"Saturday", "Sunday">>) @@
    ("Sun-Mon Off (Work Tue-Sat)" :> <<"Sunday", "Monday">>) @@
    ("Mon-Tue Off (Work Wed-Sun)" :> <<"Monday", "Tuesday">>) @@
    ("Tue-Wed Off (Work Thu-Mon)" :> <<"Tuesday", "Wednesday">>) @@
    ("Wed-Thu Off (Work Fri-Tue)" :> <<"Wednesday", "Thursday">>) @@
    ("Thu-Fri Off (Work Sat-Wed)" :> <<"Thursday", "Friday">>) @@
    ("Fri-Sat Off (Work Sun-Thu)" :> <<"Friday", "Saturday">>)

\* options=list(SHIFT_PATTERNS.keys()) of the selectbox
ShiftOptions == DOMAIN SHIFT_PATTERNS

Range(s) == {s[i] : i \in DOMAIN s}

----------------------------------------------------------------------------
(* calculate_coverage, lines 36-48 *)

\* line 43, as a bug would have it: the days off are counted as worked
working_days_off(days_off) ==
    SelectSeq(DAYS, LAMBDA day : day \in Range(days_off))

\* line 43: [day for day in DAYS if day not in days_off]
working_days(days_off) ==
    SelectSeq(DAYS, LAMBDA day : day \notin Range(days_off))

\* lines 45-46: current_coverage[day] += 1 for each working day
AddWorkingDays(current_coverage, wd) ==
    [day \in DOMAIN current_coverage |->
        current_coverage[day]
            + Cardinality({k \in DOMAIN wd : wd[k] = day})]

\* lines 40-46: the loop over the schedule from entry i on.  A dict lookup
\* of a key that is not in SHIFT_PATTERNS raises KeyError and ends the call.
RECURSIVE coverage_loop(_, _, _)
coverage_loop(sched, i, current_coverage) ==
    IF i > Len(sched)
    THEN [error |-> "none", coverage |-> current_coverage]
    ELSE IF sched[i] \notin DOMAIN SHIFT_PATTERNS
         THEN [error |-> "KeyError", coverage |-> current_coverage]
         ELSE coverage_loop(sched, i + 1,
                  AddWorkingDays(current_coverage,
                                 working_days(SHIFT_PATTERNS[sched[i]])))

\* lines 40-46, as a bug would have them: an unknown pattern is skipped
\* (SHIFT_PATTERNS.get(shift_type, DAYS) style) instead of raising
RECURSIVE coverage_loop_skip(_, _, _)
coverage_loop_skip(sched, i, current_coverage) ==
    IF i > Len(sched)
    THEN [error |-> "none", coverage |-> current_coverage]
    ELSE IF sched[i] \notin DOMAIN SHIFT_PATTERNS
         THEN coverage_loop_skip(sched, i + 1, current_coverage)
         ELSE coverage_loop_skip(sched, i + 1,
                  AddWorkingDays(current_coverage,
                                 working_days(SHIFT_PATTERNS[sched[i]])))

calculate_coverage_skip(sched) ==
    coverage_loop_skip(sched, 1, [day \in Range(DAYS) |-> 0])

\* as a bug would have it: the loop misses the last employee
calculate_coverage_short(sched) ==
    coverage_loop(SubSeq(sched, 1, Len(sched) - 1), 1,
                  [day \in Range(DAYS) |-> 0])

calculate_coverage(sched) ==
    coverage_loop(sched, 1, [day \in Range(DAYS) |-> 0])

----------------------------------------------------------------------------
(* main: the metrics loop, lines 103-127 *)

\* line 117: f"+{diff} Slack"
SlackStatus(diff) == "+" \o ToString(diff) \o " Slack"

\* lines 116-118, as a bug would have them: every difference is added,
\* a negative one too
add_slack_signed(total_slack, diff) == total_slack + diff

\* lines 116-118: elif diff > 0: total_slack += diff
add_slack(total_slack, diff) ==
    IF diff > 0 THEN total_slack + diff ELSE total_slack

\* lines 113-115, as a bug would have them: "if diff <= 0"
update_all_met_strict(all_met, diff) == IF diff <= 0 THEN FALSE ELSE all_met

\* lines 113-115: if diff < 0: all_met = False
update_all_met(all_met, diff) == IF diff < 0 THEN FALSE ELSE all_met

\* lines 108-127 for one day: the row and the updated accumulators
MetricsStep(day, coverage, acc) ==
    LET req == REQUIREMENTS[day]
        actual == coverage[day]
        diff == actual - req
        status == IF diff < 0 THEN "Understaffed"
                  ELSE IF diff > 0 THEN SlackStatus(diff)
                  ELSE "Perfect"
    IN  [data |-> Append(acc.data,
                     [Day |-> day, Required |-> req, Actual |-> actual,
                      Status |-> status]),
         total_slack |-> add_slack(acc.total_slack, diff),
         all_met |-> update_all_met(acc.all_met, diff)]

\* lines 103-127: for day in DAYS, from the i-th day on
RECURSIVE metrics_loop(_, _, _)
metrics_loop(coverage, i, acc) ==
    IF i > Len(DAYS) THEN acc
    ELSE metrics_loop(coverage, i + 1, MetricsStep(DAYS[i], coverage, acc))

\* lines 191-193: enumerate(schedule) with ID i+1
roster_rows(sched) ==
    [i \in 1..Len(sched) |-> [ID |-> i, ShiftPattern |-> sched[i]]]

\* lines 99-194: the main dashboard of one run.  An exception raised by
\* calculate_coverage ends the run: nothing below line 99 is computed.
Dashboard(sched) ==
    LET cov == calculate_coverage(sched)
    IN  IF cov.error # "none"
        THEN [error |-> cov.error]
        ELSE LET m == metrics_loop(cov.coverage, 1,
                          [data |-> <<>>, total_slack |-> 0,
                           all_met |-> TRUE])
             IN  [error |-> "none",
                  coverage |-> cov.coverage,
                  total_employees |-> Len(sched),
                  data |-> m.data,
                  total_slack |-> m.total_slack,
                  all_met |-> m.all_met,
                  roster_data |-> roster_rows(sched)]

----------------------------------------------------------------------------
(* main: the sidebar, lines 66-94 *)

NoShift == "-"
NoPreHire == [stage |-> "none", roster |-> <<>>]

\* line 77, as a bug would have it: insert(0, ...) instead of append
hire_front(sched, selected_shift) == <<selected_shift>> \o sched

\* line 77: schedule.append(selected_shift)
hire_append(sched, selected_shift) == Append(sched, selected_shift)

\* line 86, as a bug would have it: pop(0) instead of pop()
fire_pop_first(sched) == Tail(sched)

\* line 86: schedule.pop()
fire_pop(sched) == SubSeq(sched, 1, Len(sched) - 1)

\* line 93, as a bug would have it: only the last employee is dropped
reset_one(sched) == SubSeq(sched, 1, Len(sched) - 1)

\* line 93: schedule = []
reset_schedule(sched) == <<>>

\* line 84, as a bug would have it: "len(...) >= 0"
has_employees_always(sched) == Len(sched) >= 0

\* line 84: len(st.session_state.schedule) > 0
has_employees(sched) == Len(sched) > 0

\* lines 84-89 when the button is not clicked: the button is there if the
\* roster is not empty, the information line otherwise
RemoveSection(sched) ==
    [fire_button |-> has_employees(sched), info |-> ~has_employees(sched)]

\* a run of the whole script in which no button is clicked, on roster sched:
\* the run st.rerun() starts, or the one a change of the selectbox starts
PlainRun(sched) ==
    /\ schedule' = sched
    /\ success' = 0
    /\ info' = RemoveSection(sched).info
    /\ fire_button' = RemoveSection(sched).fire_button
    /\ dashboard' = Dashboard(sched)

\* the pattern hired into a roster of MixedLen employees or more
LongRosterShift == "Sat-Sun Off (Work Mon-Fri)"

\* the bound of the model on hiring
MayHire(selected_shift) ==
    /\ Len(schedule) < MaxEmployees
    /\ Len(schedule) >= MixedLen => selected_shift = LongRosterShift

\* lines 71-78, then the rest of the run: the click on "Hire Employee"
Hire(selected_shift) ==
    /\ MayHire(selected_shift)
    /\ schedule' = hire_append(schedule, selected_shift)
    /\ success' = Len(schedule')
    /\ info' = RemoveSection(schedule').info
    /\ fire_button' = RemoveSection(schedule').fire_button
    /\ dashboard' = Dashboard(schedule')
    /\ event' = [button |-> "Hire Employee",
                 selected_shift |-> selected_shift, n |-> Len(schedule)]
    /\ pre_hire' = [stage |-> "hired", roster |-> schedule]

\* lines 84-89: a request to fire the last employee.  With employees the
\* button is there: the click pops and st.rerun() starts a plain run.
\* Without, line 89 shows the information line in place of the button and
\* the run goes on as a plain run.
FireLast ==
    /\ IF has_employees(schedule)
       THEN PlainRun(fire_pop(schedule))
       ELSE PlainRun(schedule)
    /\ event' = [button |-> "Fire Last Employee",
                 selected_shift |-> NoShift, n |-> Len(schedule)]
    /\ pre_hire' = IF pre_hire.stage = "hired"
                   THEN [pre_hire EXCEPT !.stage = "undone"]
                   ELSE NoPreHire

\* lines 92-94: the click on "Reset Simulation", and the run of st.rerun()
Reset ==
    /\ PlainRun(reset_schedule(schedule))
    /\ event' = [button |-> "Reset Simulation",
                 selected_shift |-> NoShift, n |-> Len(schedule)]
    /\ pre_hire' = NoPreHire

\* a run no button started (the selectbox changed, the page was reloaded)
Rerun ==
    /\ PlainRun(schedule)
    /\ event' = [button |-> "none", selected_shift |-> NoShift,
                 n |-> Len(schedule)]
    /\ pre_hire' = NoPreHire

\* lines 30-34 and the first run: init_state() creates the empty schedule
\* when the session has none, and keeps the one it finds otherwise
FirstRun(sched) ==
    /\ schedule = sched
    /\ success = 0
    /\ info = RemoveSection(sched).info
    /\ fire_button = RemoveSection(sched).fire_button
    /\ dashboard = Dashboard(sched)
    /\ event = [button |-> "none", selected_shift |-> NoShift,
                n |-> Len(sched)]
    /\ pre_hire = NoPreHire

Init == FirstRun(<<>>)

Next ==
    \/ \E selected_shift \in ShiftOptions : Hire(selected_shift)
    \/ FireLast
    \/ Reset
    \/ Rerun

Spec == Init /\ [][Next]_vars

----------------------------------------------------------------------------
(* calculate_coverage as a function of any list: the session already holds *)
(* a schedule (line 32 keeps it), whose entries need not be in the catalog *)

UnknownShift == "Night Shift"
AnyShift == ShiftOptions \cup {UnknownShift}

BoundedSeq(S, n) == UNION {[1..k -> S] : k \in 0..n}

InitCalc == \E sched \in BoundedSeq(AnyShift, ProbeLen) : FirstRun(sched)

SpecCalc == InitCalc /\ [][Next]_vars

----------------------------------------------------------------------------
(* The properties, stated from the roster alone *)

DaySet == Range(DAYS)

\* d is a working day of pattern p: not one of its two days off
Works(p, d) == \A k \in DOMAIN SHIFT_PATTERNS[p] : SHIFT_PATTERNS[p][k] # d

\* the number of roster entries that work on day d
Staffed(d) == Cardinality({i \in DOMAIN schedule : Works(schedule[i], d)})

Max0(x) == IF x > 0 THEN x ELSE 0

\* the sum of max(0, actual - required) over the first n days
RECURSIVE PositiveExcess(_)
PositiveExcess(n) ==
    IF n = 0 THEN 0
    ELSE PositiveExcess(n - 1) + Max0(Staffed(DAYS[n]) - REQUIREMENTS[DAYS[n]])

\* the sum of the reported coverage over the first n days
RECURSIVE CoverageSum(_, _)
CoverageSum(coverage, n) ==
    IF n = 0 THEN 0 ELSE CoverageSum(coverage, n - 1) + coverage[DAYS[n]]

CatalogOnly(sched) == \A i \in DOMAIN sched : sched[i] \in ShiftOptions

TenWeekendOff == [i \in 1..10 |-> "Sat-Sun Off (Work Mon-Fri)"]

\* C1: in every reachable state the reported actual(d), in the coverage
\* table and in the row of day d, is the number of roster entries whose
\* pattern does not have d among its two days off, for each of the seven days.
C1_ActualIsCount ==
    /\ dashboard.error = "none"
    /\ DOMAIN dashboard.coverage = DaySet
    /\ Len(dashboard.data) = 7
    /\ \A k \in 1..7 :
          /\ dashboard.data[k].Day = DAYS[k]
          /\ dashboard.data[k].Actual = Staffed(DAYS[k])
          /\ dashboard.coverage[DAYS[k]] = Staffed(DAYS[k])

\* a roster of three different patterns, reached by firing from a larger one
C1_Witness ==
    /\ event.button = "Fire Last Employee"
    /\ Len(schedule) = 3
    /\ Cardinality(Range(schedule)) = 3
    /\ dashboard.coverage["Monday"] = Staffed("Monday")

\* C2: in every reachable state total_slack is the sum over the seven days
\* of max(0, actual(d) - required(d)), so it is never negative; ten
\* employees on "Sat-Sun Off (Work Mon-Fri)" give a total slack of 13.
C2_SlackIsPositiveExcess ==
    /\ dashboard.total_slack = PositiveExcess(7)
    /\ dashboard.total_slack >= 0
    /\ schedule = TenWeekendOff =>
          dashboard.total_slack = 13 /\ ~dashboard.all_met

\* the ten-employee roster of the scenario, with its understaffed weekend
C2_Witness ==
    /\ schedule = TenWeekendOff
    /\ dashboard.total_slack = 13
    /\ Staffed("Saturday") < REQUIREMENTS["Saturday"]

\* C3: in every reachable state all_met is true exactly when
\* actual(d) >= required(d) for each of the seven days: a day with
\* actual(d) = required(d) keeps it true, one day below makes it false.
C3_AllMetIffCovered ==
    dashboard.all_met <=> \A d \in DaySet : Staffed(d) >= REQUIREMENTS[d]

\* all requirements met, one of them exactly
C3_Witness ==
    /\ dashboard.all_met
    /\ \E d \in DaySet : Staffed(d) = REQUIREMENTS[d]

\* C4: a fire-last that immediately follows a hire leaves the roster as it
\* was before the hire: the same size, the same patterns in the same order.
C4_HireThenFireRestores ==
    pre_hire.stage = "undone" =>
        /\ Len(schedule) = Len(pre_hire.roster)
        /\ schedule = pre_hire.roster

\* a hire undone on a roster whose first two patterns differ
C4_Witness ==
    /\ pre_hire.stage = "undone"
    /\ event.button = "Fire Last Employee"
    /\ Len(schedule) >= 2
    /\ schedule[1] # schedule[2]

\* C5: after a reset, whatever the roster was before it, the run has not
\* failed, the roster is empty, actual(d) = 0 for every day, total_slack = 0
\* and, with the fixed requirements, all_met = FALSE.
C5_ResetClears ==
    event.button = "Reset Simulation" =>
        /\ event.n \in 0..MaxEmployees
        /\ Len(schedule) = 0
        /\ dashboard.error = "none"
        /\ dashboard.total_employees = 0
        /\ \A d \in DaySet : dashboard.coverage[d] = 0
        /\ dashboard.total_slack = 0
        /\ dashboard.all_met = FALSE

\* a reset of a roster of three or more
C5_Witness ==
    /\ event.button = "Reset Simulation"
    /\ event.n >= 3
    /\ schedule = <<>>

\* C6: a fire-last request on an empty roster removes nothing: the roster
\* stays empty, the run does not fail, and the page says "No employees to
\* remove." in place of the button; whenever the roster is empty the page
\* says so.
C6_FireOnEmptyIsNoOp ==
    /\ Len(schedule) = 0 => info /\ ~fire_button
    /\ (event.button = "Fire Last Employee" /\ event.n = 0) =>
          /\ schedule = <<>>
          /\ info
          /\ ~fire_button
          /\ dashboard.error = "none"
          /\ dashboard.total_employees = 0

\* a fire-last request made on the empty roster
C6_Witness ==
    /\ event.button = "Fire Last Employee"
    /\ event.n = 0
    /\ info

\* C8: after hire(p) on a roster of size n the roster has size n+1, its
\* last entry is p, its first n entries are the old roster in the old order,
\* the page reports "Added Employee #(n+1)" and the roster table gives the
\* new entry the id n+1.
C8_HireAppends ==
    event.button = "Hire Employee" =>
        /\ pre_hire.stage = "hired"
        /\ Len(pre_hire.roster) = event.n
        /\ Len(schedule) = event.n + 1
        /\ schedule[event.n + 1] = event.selected_shift
        /\ SubSeq(schedule, 1, event.n) = pre_hire.roster
        /\ success = event.n + 1
        /\ dashboard.total_employees = event.n + 1
        /\ dashboard.roster_data[event.n + 1] =
              [ID |-> event.n + 1, ShiftPattern |-> event.selected_shift]
        /\ \A i \in 1..event.n :
              dashboard.roster_data[i] =
                  [ID |-> i, ShiftPattern |-> pre_hire.roster[i]]

\* a hire onto a roster of two whose pattern differs from the first one's
C8_Witness ==
    /\ event.button = "Hire Employee"
    /\ event.n >= 2
    /\ event.selected_shift # schedule[1]
    /\ success = 3

\* C9: no operation puts a pattern outside the catalog into a roster that
\* has none (so a roster built from the empty one never has one, and the
\* coverage calculation never meets one); and on a roster that does hold
\* one, calculate_coverage fails with KeyError instead of skipping it.
C9_CatalogOnlyOrKeyError ==
    /\ [](dashboard.error = "KeyError" <=> ~CatalogOnly(schedule))
    /\ [](dashboard.error \in {"none", "KeyError"})
    /\ [][/\ CatalogOnly(schedule) => CatalogOnly(schedule')
          /\ event'.button = "Hire Employee" =>
                event'.selected_shift \in ShiftOptions]_vars

\* a hire onto a roster that holds an unknown pattern: the run fails
C9_Witness ==
    /\ event.button = "Hire Employee"
    /\ ~CatalogOnly(schedule)
    /\ schedule[Len(schedule)] \in ShiftOptions
    /\ dashboard.error = "KeyError"

\* C10: every catalog pattern has exactly five working days, so the sum of
\* actual(d) over the seven days is 5 times the roster size; a hire raises
\* the sum by 5 and a fire-last that removes an employee lowers it by 5.
C10_FivePerEmployee ==
    /\ [](/\ \A p \in ShiftOptions : Len(working_days(SHIFT_PATTERNS[p])) = 5
          /\ CoverageSum(dashboard.coverage, 7) = 5 * Len(schedule))
    /\ [][/\ event'.button = "Hire Employee" =>
                CoverageSum(dashboard'.coverage, 7)
                    = CoverageSum(dashboard.coverage, 7) + 5
          /\ (event'.button = "Fire Last Employee" /\ event'.n > 0) =>
                CoverageSum(dashboard'.coverage, 7)
                    = CoverageSum(dashboard.coverage, 7) - 5]_vars

\* a fire-last that removed an employee, the sum at 5 per employee left
C10_Witness ==
    /\ event.button = "Fire Last Employee"
    /\ event.n = 4
    /\ Len(schedule) = 3
    /\ CoverageSum(dashboard.coverage, 7) = 15

====
